---- MODULE Spec2Model ----
(***************************************************************************)
(* State-machine model of the J.A.R.V.I.S. live assistant overlay:         *)
(*   - App (src/unnamed/part_000): session lifecycle (startJarvis, the     *)
(*     live-session callbacks, cleanup), the playback scheduler, the       *)
(*     annotation engine (updateDrawings / undo / redo and the tool-call   *)
(*     handler) and the transcription buffers;                             *)
(*   - JarvisHUD (src/components/JarvisHUD.tsx): the local drawing         *)
(*     handlers (mouse down / move / up).                                  *)
(*                                                                         *)
(* Every JavaScript task (an event handler, a callback, a timer) is one    *)
(* action.  Promise reactions on an already-resolved promise are           *)
(* microtasks: they are queued in `microtasks` and run before any other    *)
(* task.  The `await decodeAudioData(...)` of the message handler is a     *)
(* real suspension point: the rest of that handler is a continuation kept  *)
(* in `pendingDecodes` and resumed by DecodeDone.                          *)
(***************************************************************************)
EXTENDS Integers, Sequences, FiniteSets, TLC

(***************************************************************************)
(* Program constants                                                       *)
(***************************************************************************)
HistoryCap == 50

(***************************************************************************)
(* Bounds of the model                                                     *)
(***************************************************************************)
MaxSessions == 2
MaxCallIds == 2
MaxDrawings == 2
MaxNow == 1
MaxTime == 1
MaxDur == 2
MaxChunks == 2
MaxTexts == 3
MaxTimers == 2
MaxInterrupts == 1
MaxPoints == 2
MaxHistory == 4
CapExtra == 2
MaxSamples == 2

Sids == 1..MaxSessions
CallIds == 1..MaxCallIds

VARIABLES
    \* React state of App
    isActive, isConnecting, error, drawings, selectedTool, screenStream,
    \* refs of App
    drawingsRef, historyRef, historyIndexRef,
    sessionPromiseRef, micStreamRef, frameIntervalRef,
    inputAudioCtxRef, outputAudioCtxRef,
    nextStartTimeRef, sourcesRef, transcriptionRef,
    \* local state of JarvisHUD
    isDrawing, startPoint, currentPoints, previewDrawing,
    \* one startJarvis invocation / live session per id
    \* isActiveAtStart: the isActive that the closures of that invocation see
    phase, closeReq, nStarts, isActiveAtStart,
    \* external collaborators: device tracks, timers, audio nodes, counters
    \* of the release calls made on them
    \* frames: the invocations with a requestAnimationFrame(updateVisuals)
    \* callback pending; voiceData: the samples published since the last reset
    tracks, timers, audioProcs, released, frames, voiceData,
    \* clocks: Date.now() and the output AudioContext's currentTime
    now, currentTime,
    \* playback: every AudioBufferSourceNode ever created, and the message
    \* handlers suspended at `await decodeAudioData`
    \* nInterrupts counts the interruptions processed so far
    sources, pendingDecodes, nChunks, nInterrupts,
    \* tool calls: the remote's outstanding calls, the calls whose
    \* updateDrawings has run, the queued promise reactions
    awaiting, applied, microtasks,
    \* transcript: pending setTimeout callbacks, number of text deltas so far
    clearTimers, nTexts,
    \* the handler that ran last
    lastOp

uiVars == <<isActive, isConnecting, error, selectedTool, screenStream>>
engVars == <<drawings, drawingsRef, historyRef, historyIndexRef>>
refVars == <<sessionPromiseRef, micStreamRef, frameIntervalRef,
             inputAudioCtxRef, outputAudioCtxRef>>
hudVars == <<isDrawing, startPoint, currentPoints, previewDrawing>>
sessVars == <<phase, closeReq, nStarts, isActiveAtStart>>
resVars == <<tracks, timers, audioProcs, released, frames, voiceData>>
playVars == <<nextStartTimeRef, sourcesRef, sources, pendingDecodes, nChunks,
             nInterrupts>>
toolVars == <<awaiting, applied, microtasks>>
textVars == <<transcriptionRef, clearTimers, nTexts>>

vars == <<uiVars, engVars, refVars, hudVars, sessVars, resVars, playVars,
          toolVars, textVars, now, currentTime, lastOp>>

(***************************************************************************)
(* Values                                                                  *)
(***************************************************************************)
Max(a, b) == IF a >= b THEN a ELSE b

NoId == <<>>
NoPoint == [x |-> -1, y |-> -1]
NoDrawing == [id |-> NoId, type |-> "", x |-> 0, y |-> 0, width |-> 0,
              height |-> 0, label |-> "", points |-> <<>>, color |-> ""]
NoCall == [sid |-> 0, name |-> ""]
EmptyTranscript == [user |-> <<>>, ai |-> <<>>]

\* A mark descriptor as the remote sends it (markScreenTool's item schema);
\* id is NoId unless the payload itself carries an id field.
Mark(type, x, y, width, id) ==
    [id |-> id, type |-> type, x |-> x, y |-> y, width |-> width,
     height |-> 0, label |-> "", points |-> <<>>]

\* One function call of a toolCall message.  hasMarks is FALSE when the
\* args carry no `marks` list.
Call(name, hasMarks, marks) ==
    [name |-> name, id |-> 0, hasMarks |-> hasMarks, marks |-> marks]

\* A LiveServerMessage: audio is 0 (no inline data), BadChunk (inline data
\* that does not decode) or the chunk's duration.
BadChunk == -1
Msg(audio, calls, inTx, outTx, turnComplete, interrupted) ==
    [audio |-> audio, calls |-> calls, inTx |-> inTx, outTx |-> outTx,
     turnComplete |-> turnComplete, interrupted |-> interrupted]

(***************************************************************************)
(* Annotation engine: updateDrawings, undo, redo                           *)
(* An engine value is the three refs                                       *)
(* [drawingsRef, historyRef, historyIndexRef].                             *)
(***************************************************************************)
Engine == [drawingsRef |-> drawingsRef, historyRef |-> historyRef,
           historyIndexRef |-> historyIndexRef]

\* Array.prototype.slice(0, n)
slice(h, n) == SubSeq(h, 1, IF n > Len(h) THEN Len(h) ELSE n)

\* 1 when the cursor is not at the last snapshot (a redo is available).
Redoable(e) == IF e.historyIndexRef < Len(e.historyRef) - 1 THEN 1 ELSE 0

\* Faulty variants of updateDrawings: the snapshots beyond the cursor are kept; the
\* oldest snapshot is never dropped.
updateDrawingsNoTruncate(e, newDrawings) ==
    LET pushed == Append(e.historyRef, newDrawings)
        newHistory == IF Len(pushed) > HistoryCap THEN Tail(pushed) ELSE pushed
    IN [drawingsRef |-> newDrawings, historyRef |-> newHistory,
        historyIndexRef |-> Len(newHistory) - 1]

updateDrawingsNoShift(e, newDrawings) ==
    LET newHistory == Append(slice(e.historyRef, e.historyIndexRef + 1), newDrawings)
    IN [drawingsRef |-> newDrawings, historyRef |-> newHistory,
        historyIndexRef |-> Len(newHistory) - 1]

updateDrawings(e, newDrawings) ==
    LET pushed == Append(slice(e.historyRef, e.historyIndexRef + 1), newDrawings)
        newHistory == IF Len(pushed) > HistoryCap THEN Tail(pushed) ELSE pushed
    IN [drawingsRef |-> newDrawings, historyRef |-> newHistory,
        historyIndexRef |-> Len(newHistory) - 1]

\* Faulty variant of undo: the cursor-0 branch restores snapshot 0 instead of [].
undoKeepsFirst(e) ==
    IF e.historyIndexRef > 0
    THEN [e EXCEPT !.historyIndexRef = e.historyIndexRef - 1,
                   !.drawingsRef = e.historyRef[e.historyIndexRef]]
    ELSE IF e.historyIndexRef = 0
    THEN [e EXCEPT !.historyIndexRef = -1, !.drawingsRef = e.historyRef[1]]
    ELSE e

undo(e) ==
    IF e.historyIndexRef > 0
    THEN [e EXCEPT !.historyIndexRef = e.historyIndexRef - 1,
                   !.drawingsRef = e.historyRef[e.historyIndexRef]]
    ELSE IF e.historyIndexRef = 0
    THEN [e EXCEPT !.historyIndexRef = -1, !.drawingsRef = <<>>]
    ELSE e

\* Faulty variant of redo: the cursor moves and the drawing list stays.
redoKeepsList(e) ==
    IF e.historyIndexRef < Len(e.historyRef) - 1
    THEN [e EXCEPT !.historyIndexRef = e.historyIndexRef + 1]
    ELSE e

redo(e) ==
    IF e.historyIndexRef < Len(e.historyRef) - 1
    THEN [e EXCEPT !.historyIndexRef = e.historyIndexRef + 1,
                   !.drawingsRef = e.historyRef[e.historyIndexRef + 2]]
    ELSE e

(***************************************************************************)
(* The message handler (onmessage) after its audio part, as a function on  *)
(* the state it touches.  threw is TRUE once an exception has left the     *)
(* handler: nothing after the throwing statement runs.                     *)
(***************************************************************************)
HandlerState ==
    [eng |-> Engine, micro |-> microtasks, applied |-> applied,
     tx |-> transcriptionRef, timers |-> clearTimers, ntx |-> nTexts,
     nst |-> nextStartTimeRef, sref |-> sourcesRef, srcs |-> sources,
     nint |-> nInterrupts, threw |-> FALSE]

\* { id: `ai-${Date.now()}-${i}`, ...m }: the spread comes after id, so an
\* id carried by the payload replaces the generated one.
newMark(m, t, i) ==
    [id |-> IF m.id = NoId THEN <<"ai", t, i>> ELSE m.id,
     type |-> m.type, x |-> m.x, y |-> m.y, width |-> m.width,
     height |-> m.height, label |-> m.label, points |-> m.points, color |-> ""]

newMarks(marks, t) == [i \in 1..Len(marks) |-> newMark(marks[i], t, i - 1)]

\* sessionPromise.then(s => s.sendToolResponse({functionResponses: ...}))
toolResponse(fc, sid, result) ==
    [id |-> fc.id, name |-> fc.name, sid |-> sid, result |-> result]

\* Faulty variant of handleCall: clear_marks empties the current snapshot in
\* place instead of pushing a new one.
handleCallClearInPlace(s, fc, sid, t) ==
    IF fc.name = "mark_screen"
    THEN IF ~fc.hasMarks
         THEN [s EXCEPT !.threw = TRUE]
         ELSE [s EXCEPT
                 !.eng = updateDrawings(s.eng, s.eng.drawingsRef \o newMarks(fc.marks, t)),
                 !.applied = @ \cup {fc.id},
                 !.micro = Append(@, toolResponse(fc, sid, "HUD marks deployed, Sir."))]
    ELSE IF fc.name = "clear_marks"
    THEN [s EXCEPT
            !.eng = [s.eng EXCEPT
                       !.drawingsRef = <<>>,
                       !.historyRef = [i \in 1..Len(@) |->
                                         IF i = s.eng.historyIndexRef + 1 THEN <<>>
                                         ELSE @[i]]],
            !.applied = @ \cup {fc.id},
            !.micro = Append(@, toolResponse(fc, sid, "HUD clear."))]
    ELSE s

\* One iteration of `for (const fc of message.toolCall.functionCalls)`.
\* (fc.args as any).marks.map throws a TypeError when args has no marks.
handleCall(s, fc, sid, t) ==
    IF fc.name = "mark_screen"
    THEN IF ~fc.hasMarks
         THEN [s EXCEPT !.threw = TRUE]
         ELSE [s EXCEPT
                 !.eng = updateDrawings(s.eng, s.eng.drawingsRef \o newMarks(fc.marks, t)),
                 !.applied = @ \cup {fc.id},
                 !.micro = Append(@, toolResponse(fc, sid, "HUD marks deployed, Sir."))]
    ELSE IF fc.name = "clear_marks"
    THEN [s EXCEPT
            !.eng = updateDrawings(s.eng, <<>>),
            !.applied = @ \cup {fc.id},
            !.micro = Append(@, toolResponse(fc, sid, "HUD clear."))]
    ELSE s

RECURSIVE handleCalls(_, _, _, _)
handleCalls(s, calls, sid, t) ==
    IF calls = <<>> \/ s.threw
    THEN s
    ELSE handleCalls(handleCall(s, Head(calls), sid, t), Tail(calls), sid, t)

\* transcriptionRef.current.user += text / .ai += text.  A text delta is
\* represented by its sequence number, so every delta is distinct.
transcribe(s, m) ==
    LET s1 == IF m.inTx
              THEN [s EXCEPT !.tx.user = Append(@, s.ntx + 1), !.ntx = @ + 1]
              ELSE s
    IN IF m.outTx
       THEN [s1 EXCEPT !.tx.ai = Append(@, s1.ntx + 1), !.ntx = @ + 1]
       ELSE s1

\* setTimeout(() => {...}, 6000): one more pending timer; none is cancelled.
\* armedAt records how many text deltas had arrived when it was armed.
turnComplete(s, m) ==
    IF m.turnComplete
    THEN [s EXCEPT !.timers = Append(@, [armedAt |-> s.ntx])]
    ELSE s

\* sourcesRef.current.forEach(s => { try { s.stop(); } catch(e) {} })
stopAll(srcs, sref) ==
    [k \in DOMAIN srcs |->
        IF k \in sref
        THEN [srcs[k] EXCEPT !.stops = @ + 1, !.state = "stopped"]
        ELSE srcs[k]]

\* Faulty variant of interrupt: nextStartTime keeps its value.
interruptKeepsOffset(s, m) ==
    IF m.interrupted
    THEN [s EXCEPT !.srcs = stopAll(s.srcs, s.sref), !.sref = {}, !.nint = @ + 1]
    ELSE s

interrupt(s, m) ==
    IF m.interrupted
    THEN [s EXCEPT !.srcs = stopAll(s.srcs, s.sref), !.sref = {}, !.nst = 0,
                   !.nint = @ + 1]
    ELSE s

\* Everything of onmessage after the audio block.
handlerRest(s, m, sid, t) ==
    LET s1 == handleCalls(s, m.calls, sid, t)
    IN IF s1.threw THEN s1 ELSE interrupt(turnComplete(transcribe(s1, m), m), m)

\* Faulty variant of schedule: the source is started but not added to
\* sourcesRef.
scheduleUnregistered(s, c, ctx, clock, prev) ==
    [s EXCEPT
        !.srcs = Append(@, [arr |-> c.k, ctx |-> ctx, start |-> s.nst,
                            dur |-> c.m.audio, at |-> clock, arrAt |-> c.clock,
                            afterInt |-> c.afterInt,
                            direct |-> (prev = [op |-> "await", arg |-> c.k]),
                            arrEpoch |-> c.epoch, epoch |-> s.nint,
                            state |-> "scheduled", stops |-> 0]),
        !.nst = @ + c.m.audio]

\* The audio block after the await: createBufferSource, start(nextStartTime),
\* nextStartTime += duration, sourcesRef.add(source).  The source record
\* keeps, besides start and duration, what the arrival and the clock were.
schedule(s, c, ctx, clock, prev) ==
    [s EXCEPT
        !.srcs = Append(@, [arr |-> c.k, ctx |-> ctx, start |-> s.nst,
                            dur |-> c.m.audio, at |-> clock, arrAt |-> c.clock,
                            afterInt |-> c.afterInt,
                            direct |-> (prev = [op |-> "await", arg |-> c.k]),
                            arrEpoch |-> c.epoch, epoch |-> s.nint,
                            state |-> "scheduled", stops |-> 0]),
        !.nst = @ + c.m.audio,
        !.sref = @ \cup {Len(s.srcs) + 1}]

\* Write a handler state back.  rendered: whether React has re-rendered the
\* HUD with the new drawing list before the next event.
Commit(s, rendered) ==
    /\ drawingsRef' = s.eng.drawingsRef
    /\ historyRef' = s.eng.historyRef
    /\ historyIndexRef' = s.eng.historyIndexRef
    /\ drawings' = IF rendered THEN s.eng.drawingsRef ELSE drawings
    /\ microtasks' = s.micro
    /\ applied' = s.applied
    /\ transcriptionRef' = s.tx
    /\ clearTimers' = s.timers
    /\ nTexts' = s.ntx
    /\ nextStartTimeRef' = s.nst
    /\ sourcesRef' = s.sref
    /\ sources' = s.srcs
    /\ nInterrupts' = s.nint

Op(op, arg) == [op |-> op, arg |-> arg]

\* The label of a finished message handler.
OpTag(s, m) ==
    IF s.threw THEN "threw"
    ELSE IF m.interrupted THEN "interrupted"
    ELSE IF m.calls # <<>> THEN "toolCall"
    ELSE "onmessage"

(***************************************************************************)
(* Initial state: App and JarvisHUD as constructed                         *)
(***************************************************************************)
Init ==
    /\ isActive = FALSE /\ isConnecting = FALSE /\ error = ""
    /\ drawings = <<>> /\ selectedTool = "path" /\ screenStream = 0
    /\ drawingsRef = <<>> /\ historyRef = <<>> /\ historyIndexRef = -1
    /\ sessionPromiseRef = 0 /\ micStreamRef = 0 /\ frameIntervalRef = 0
    /\ inputAudioCtxRef = 0 /\ outputAudioCtxRef = 0
    /\ nextStartTimeRef = 0 /\ sourcesRef = {}
    /\ transcriptionRef = EmptyTranscript
    /\ isDrawing = FALSE /\ startPoint = NoPoint /\ currentPoints = <<>>
    /\ previewDrawing = NoDrawing
    /\ phase = [s \in Sids |-> "none"]
    /\ closeReq = [s \in Sids |-> FALSE]
    /\ nStarts = 0
    /\ isActiveAtStart = [s \in Sids |-> FALSE]
    /\ tracks = [s \in Sids |-> [screen |-> "none", mic |-> "none"]]
    /\ timers = {} /\ audioProcs = {}
    /\ frames = {} /\ voiceData = 0
    /\ released = [s \in Sids |-> [clearInterval |-> 0, micStop |-> 0,
                                   inClose |-> 0, outClose |-> 0, sessClose |-> 0]]
    /\ now = 0 /\ currentTime = 0
    /\ sources = <<>> /\ pendingDecodes = {} /\ nChunks = 0 /\ nInterrupts = 0
    /\ awaiting = [i \in CallIds |-> NoCall] /\ applied = {} /\ microtasks = <<>>
    /\ clearTimers = <<>> /\ nTexts = 0
    /\ lastOp = Op("init", 0)

\* A task starts only when the microtask queue has drained.
TaskBoundary == microtasks = <<>>

(***************************************************************************)
(* cleanup                                                                 *)
(***************************************************************************)
Bump(rel, sid, field) ==
    IF sid = 0 THEN rel ELSE [rel EXCEPT ![sid][field] = @ + 1]

\* sessionPromiseRef.current?.then(session => session.close()): the session
\* whose promise the ref holds is closed now when the promise has resolved,
\* and once it resolves otherwise.
SessionResolved(ph, sid) == ph[sid] \in {"open", "closing", "errored", "closed"}

\* The teardown steps, named by the call that can fail.
Faults == {"clearInterval", "micStop", "sourceStop", "inClose", "outClose",
           "sessionClose"}

\* The steps cleanup runs outside any try/catch or .catch: an exception
\* thrown there leaves cleanup.
Uncaught(fault) == fault \in {"clearInterval", "micStop"}

\* cleanup(), run on top of the caller's own updates of phase and tracks,
\* with the step `fault` failing ("none": no step fails).  A failing step has
\* no effect; when nothing catches its exception the statements after it do
\* not run.  frameIntervalRef and micStreamRef are read but never reset.
cleanupWith(ph, tr, fault) ==
    LET rest == ~Uncaught(fault)
        closes == rest /\ fault # "sessionClose" /\ sessionPromiseRef # 0
    IN
    /\ isActive' = FALSE
    /\ isConnecting' = FALSE
    /\ drawings' = <<>>
    /\ drawingsRef' = <<>>
    /\ historyRef' = <<>>
    /\ historyIndexRef' = -1
    /\ screenStream' = 0
    /\ voiceData' = 0
    /\ frames' = frames
    /\ timers' = IF fault = "clearInterval" THEN timers
                 ELSE timers \ {frameIntervalRef}
    /\ tracks' = IF micStreamRef = 0 \/ Uncaught(fault) THEN tr
                 ELSE [tr EXCEPT ![micStreamRef].mic = "stopped"]
    /\ sources' = IF rest /\ fault # "sourceStop"
                  THEN stopAll(sources, sourcesRef) ELSE sources
    /\ sourcesRef' = IF rest THEN {} ELSE sourcesRef
    /\ audioProcs' = IF rest /\ fault # "inClose"
                     THEN {a \in audioProcs : a.ctx # inputAudioCtxRef}
                     ELSE audioProcs
    /\ inputAudioCtxRef' = IF rest THEN 0 ELSE inputAudioCtxRef
    /\ outputAudioCtxRef' = IF rest THEN 0 ELSE outputAudioCtxRef
    /\ nextStartTimeRef' = IF rest THEN 0 ELSE nextStartTimeRef
    /\ released' =
         LET r1 == IF fault = "clearInterval" THEN released
                   ELSE Bump(released, frameIntervalRef, "clearInterval")
             r2 == IF Uncaught(fault) THEN r1 ELSE Bump(r1, micStreamRef, "micStop")
             r3 == IF rest /\ fault # "inClose"
                   THEN Bump(r2, inputAudioCtxRef, "inClose") ELSE r2
             r4 == IF rest /\ fault # "outClose"
                   THEN Bump(r3, outputAudioCtxRef, "outClose") ELSE r3
         IN IF closes /\ SessionResolved(ph, sessionPromiseRef)
            THEN Bump(r4, sessionPromiseRef, "sessClose")
            ELSE r4
    /\ phase' = IF closes /\ ph[sessionPromiseRef] = "open"
                THEN [ph EXCEPT ![sessionPromiseRef] = "closing"]
                ELSE ph
    /\ closeReq' = IF closes /\ ph[sessionPromiseRef] = "connecting"
                   THEN [closeReq EXCEPT ![sessionPromiseRef] = TRUE]
                   ELSE closeReq
    /\ sessionPromiseRef' = IF rest THEN 0 ELSE sessionPromiseRef

cleanup(ph, tr) == cleanupWith(ph, tr, "none")

\* What cleanup leaves alone.
cleanupUnchanged ==
    UNCHANGED <<selectedTool, micStreamRef, frameIntervalRef, hudVars, nStarts,
                isActiveAtStart,
                pendingDecodes, nChunks, nInterrupts, toolVars, textVars,
                now, currentTime>>

(***************************************************************************)
(* Session lifecycle: startJarvis and the live-session callbacks           *)
(***************************************************************************)
\* The Initialize button (rendered while neither active nor connecting):
\* startJarvis up to `await getDisplayMedia`.
StartJarvis ==
    /\ TaskBoundary
    /\ ~isActive /\ ~isConnecting
    /\ nStarts < MaxSessions
    /\ nStarts' = nStarts + 1
    /\ isActiveAtStart' = [isActiveAtStart EXCEPT ![nStarts + 1] = isActive]
    /\ isConnecting' = TRUE
    /\ error' = ""
    /\ phase' = [phase EXCEPT ![nStarts + 1] = "awaitScreen"]
    /\ lastOp' = Op("startJarvis", nStarts + 1)
    /\ UNCHANGED <<isActive, selectedTool, screenStream, engVars, refVars, hudVars,
                   closeReq, resVars, playVars, toolVars, textVars, now, currentTime>>

\* getDisplayMedia resolves; startJarvis runs up to `await getUserMedia`.
ScreenGranted(sid) ==
    /\ TaskBoundary
    /\ phase[sid] = "awaitScreen"
    /\ phase' = [phase EXCEPT ![sid] = "awaitMic"]
    /\ tracks' = [tracks EXCEPT ![sid].screen = "live"]
    /\ lastOp' = Op("screenGranted", sid)
    /\ UNCHANGED <<uiVars, engVars, refVars, hudVars, closeReq, nStarts,
                   isActiveAtStart, timers, audioProcs, released, frames, voiceData,
                   playVars, toolVars, textVars, now, currentTime>>

\* getUserMedia resolves; startJarvis runs to its end: streams and audio
\* contexts stored, ai.live.connect requested, sessionPromiseRef set, the
\* video track's onended installed.
MicGranted(sid) ==
    /\ TaskBoundary
    /\ phase[sid] = "awaitMic"
    /\ phase' = [phase EXCEPT ![sid] = "connecting"]
    /\ tracks' = [tracks EXCEPT ![sid].mic = "live"]
    /\ screenStream' = sid
    /\ micStreamRef' = sid
    /\ inputAudioCtxRef' = sid
    /\ outputAudioCtxRef' = sid
    /\ currentTime' = 0
    /\ sessionPromiseRef' = sid
    /\ lastOp' = Op("micGranted", sid)
    /\ UNCHANGED <<isActive, isConnecting, error, selectedTool, engVars,
                   frameIntervalRef, hudVars, closeReq, nStarts, isActiveAtStart,
                   timers, audioProcs, frames, voiceData, released, playVars,
                   toolVars, textVars, now>>

\* getDisplayMedia or getUserMedia rejects: the catch block.
StartFailed(sid) ==
    /\ TaskBoundary
    /\ phase[sid] \in {"awaitScreen", "awaitMic"}
    /\ error' = "System uplink failure."
    /\ cleanup([phase EXCEPT ![sid] = "failed"], tracks)
    /\ cleanupUnchanged
    /\ lastOp' = Op("startFailed", sid)

\* callbacks.onopen
OnOpen(sid) ==
    /\ TaskBoundary
    /\ phase[sid] = "connecting"
    /\ isConnecting' = FALSE
    /\ isActive' = TRUE
    /\ IF inputAudioCtxRef = 0
       THEN \* inputAudioCtxRef.current!.createMediaStreamSource throws
            UNCHANGED <<audioProcs, timers, frameIntervalRef, frames>>
       ELSE /\ audioProcs' = audioProcs \cup {[ctx |-> inputAudioCtxRef, sid |-> sid]}
            /\ frames' = frames \cup {sid}
            /\ timers' = timers \cup {sid}
            /\ frameIntervalRef' = sid
    /\ IF closeReq[sid]
       THEN /\ phase' = [phase EXCEPT ![sid] = "closing"]
            /\ released' = Bump(released, sid, "sessClose")
            /\ closeReq' = [closeReq EXCEPT ![sid] = FALSE]
       ELSE /\ phase' = [phase EXCEPT ![sid] = "open"]
            /\ UNCHANGED <<released, closeReq>>
    /\ lastOp' = Op("onopen", sid)
    /\ UNCHANGED <<error, selectedTool, screenStream, engVars, sessionPromiseRef,
                   micStreamRef, inputAudioCtxRef, outputAudioCtxRef, hudVars,
                   nStarts, isActiveAtStart, tracks, voiceData, playVars, toolVars,
                   textVars, now, currentTime>>

\* An animation frame runs updateVisuals of invocation sid.  The isActive it
\* tests is the one of the render startJarvis was called from; the analyser
\* exists exactly while the output context does.
AnimationFrame(sid) ==
    /\ TaskBoundary
    /\ sid \in frames
    /\ IF outputAudioCtxRef # 0 /\ isActiveAtStart[sid]
       THEN /\ voiceData < MaxSamples
            /\ voiceData' = voiceData + 1
            /\ frames' = frames
       ELSE /\ frames' = frames \ {sid}
            /\ voiceData' = voiceData
    /\ lastOp' = Op("updateVisuals", sid)
    /\ UNCHANGED <<uiVars, engVars, refVars, hudVars, sessVars, tracks, timers,
                   audioProcs, released, playVars, toolVars, textVars, now,
                   currentTime>>

\* The shutdown button (rendered while active): onDeactivate = cleanup
Deactivate ==
    /\ TaskBoundary
    /\ isActive
    /\ cleanup(phase, tracks)
    /\ cleanupUnchanged
    /\ UNCHANGED error
    /\ lastOp' = Op("cleanup", 0)

\* The shutdown button, with one step of cleanup failing.
CleanupFails(fault) ==
    /\ TaskBoundary
    /\ isActive
    /\ fault = "clearInterval" => frameIntervalRef # 0
    /\ fault = "micStop" => micStreamRef # 0
    /\ fault = "sourceStop" => sourcesRef # {}
    /\ fault = "inClose" => inputAudioCtxRef # 0
    /\ fault = "outClose" => outputAudioCtxRef # 0
    /\ fault = "sessionClose" =>
          sessionPromiseRef # 0 /\ SessionResolved(phase, sessionPromiseRef)
    /\ cleanupWith(phase, tracks, fault)
    /\ cleanupUnchanged
    /\ UNCHANGED error
    /\ lastOp' = Op("cleanupFault", fault)

\* The promise returned by ai.live.connect rejects before any callback was
\* invoked.  startJarvis does not await the promise and attaches no
\* rejection handler to it: no code runs.
ConnectRejected(sid) ==
    /\ TaskBoundary
    /\ phase[sid] = "connecting"
    /\ phase' = [phase EXCEPT ![sid] = "rejected"]
    /\ lastOp' = Op("connectRejected", sid)
    /\ UNCHANGED <<uiVars, engVars, refVars, hudVars, closeReq, nStarts, isActiveAtStart, tracks,
                   timers, audioProcs, released, frames, voiceData, playVars, toolVars, textVars,
                   now, currentTime>>

\* Faulty variant of OnError: the error is reported and nothing is torn down.
OnErrorKeepsSession(sid) ==
    /\ TaskBoundary
    /\ phase[sid] \in {"connecting", "open"}
    /\ error' = "J.A.R.V.I.S. Uplink Error"
    /\ phase' = [phase EXCEPT ![sid] = IF phase[sid] = "open" THEN "errored"
                                       ELSE "refused"]
    /\ lastOp' = Op("onerror", sid)
    /\ UNCHANGED <<isActive, isConnecting, drawings, selectedTool, screenStream,
                   engVars, refVars, hudVars, closeReq, nStarts, isActiveAtStart, tracks, timers,
                   audioProcs, released, frames, voiceData, playVars, toolVars, textVars, now,
                   currentTime>>

\* callbacks.onerror, of an open session or of one that never opened
\* ("refused": its promise never resolves).
OnError(sid) ==
    /\ TaskBoundary
    /\ phase[sid] \in {"connecting", "open"}
    /\ error' = "J.A.R.V.I.S. Uplink Error"
    /\ cleanup([phase EXCEPT ![sid] = IF phase[sid] = "open" THEN "errored"
                                      ELSE "refused"], tracks)
    /\ cleanupUnchanged
    /\ lastOp' = Op("onerror", sid)

\* callbacks.onclose: the connection is gone, after a local close(), an
\* error, or a close by the remote.
OnClose(sid) ==
    /\ TaskBoundary
    /\ phase[sid] \in {"open", "closing", "errored", "refused"}
    /\ cleanup([phase EXCEPT ![sid] = "closed"], tracks)
    /\ UNCHANGED <<selectedTool, micStreamRef, frameIntervalRef, hudVars, nStarts,
                   isActiveAtStart,
                   pendingDecodes, nChunks, nInterrupts, microtasks, textVars,
                   now, currentTime, error>>
    /\ awaiting' = [i \in CallIds |-> IF awaiting[i].sid = sid THEN NoCall ELSE awaiting[i]]
    /\ applied' = {i \in applied : awaiting[i].sid # sid}
    /\ lastOp' = Op("onclose", sid)

\* stream.getVideoTracks()[0].onended: the user stops sharing the screen.
TrackEnded(sid) ==
    /\ TaskBoundary
    /\ tracks[sid].screen = "live"
    /\ phase[sid] \in {"connecting", "open", "closing", "errored", "closed",
                      "rejected", "refused"}
    /\ cleanup(phase, [tracks EXCEPT ![sid].screen = "ended"])
    /\ cleanupUnchanged
    /\ UNCHANGED error
    /\ lastOp' = Op("onended", sid)

(***************************************************************************)
(* callbacks.onmessage                                                     *)
(***************************************************************************)
\* Call ids are the remote's: an id is reused only once its call has been
\* answered (or its connection is gone) and nothing local still refers to it.
FreeIds ==
    {i \in CallIds :
        /\ awaiting[i] = NoCall
        /\ \A j \in 1..Len(microtasks) : microtasks[j].id # i
        /\ \A c \in pendingDecodes : \A j \in 1..Len(c.m.calls) : c.m.calls[j].id # i}

RECURSIVE firstN(_, _)
firstN(S, n) ==
    IF n = 0 \/ S = {} THEN <<>>
    ELSE LET x == CHOOSE x \in S : \A y \in S : x <= y
         IN <<x>> \o firstN(S \ {x}, n - 1)

WithIds(calls, ids) == [j \in 1..Len(calls) |-> [calls[j] EXCEPT !.id = ids[j]]]

RECURSIVE MarksIn(_)
MarksIn(calls) ==
    IF calls = <<>> THEN 0 ELSE Len(Head(calls).marks) + MarksIn(Tail(calls))

TextsIn(m) == (IF m.inTx THEN 1 ELSE 0) + (IF m.outTx THEN 1 ELSE 0)

\* The bounds of the environment's inputs.
WithinBounds(m) ==
    /\ Cardinality(FreeIds) >= Len(m.calls)
    /\ m.audio # 0 => nChunks < MaxChunks
    /\ nTexts + TextsIn(m) <= MaxTexts
    /\ m.turnComplete => Len(clearTimers) < MaxTimers
    /\ m.interrupted => nInterrupts < MaxInterrupts

Issued(calls, sid) ==
    [i \in CallIds |->
        IF \E j \in 1..Len(calls) : calls[j].id = i
        THEN [sid |-> sid,
              name |-> calls[CHOOSE j \in 1..Len(calls) : calls[j].id = i].name]
        ELSE awaiting[i]]

\* A message of session sid is delivered.  With inline audio and a live
\* output context the handler runs up to `await decodeAudioData(...)`;
\* otherwise it runs to its end, and lastOp keeps whether a redo was
\* available when it began.
OnMessage(sid, msg, rendered) ==
    /\ TaskBoundary
    /\ phase[sid] \in {"open", "closing"}
    /\ WithinBounds(msg)
    /\ LET m == [msg EXCEPT !.calls = WithIds(msg.calls, firstN(FreeIds, Len(msg.calls)))]
       IN IF m.audio # 0 /\ outputAudioCtxRef # 0
          THEN /\ nextStartTimeRef' = Max(nextStartTimeRef, currentTime)
               /\ pendingDecodes' = pendingDecodes \cup
                    {[k |-> nChunks + 1, sid |-> sid, m |-> m, clock |-> currentTime,
                      afterInt |-> (lastOp.op = "interrupted"), epoch |-> nInterrupts]}
               /\ nChunks' = nChunks + 1
               /\ awaiting' = Issued(m.calls, sid)
               /\ lastOp' = Op("await", nChunks + 1)
               /\ UNCHANGED <<engVars, applied, microtasks, textVars, sourcesRef,
                              sources, nInterrupts>>
          ELSE LET s == handlerRest(HandlerState, m, sid, now)
               IN /\ Commit(s, rendered)
                  /\ awaiting' = Issued(m.calls, sid)
                  /\ lastOp' = Op(OpTag(s, m), Redoable(Engine))
                  /\ UNCHANGED <<pendingDecodes, nChunks>>
    /\ UNCHANGED <<uiVars, refVars, hudVars, sessVars, resVars, now, currentTime>>

\* decodeAudioData resolves for the suspended handler c: the chunk is
\* scheduled and the rest of the handler runs.  With the output context gone
\* outputAudioCtxRef.current.createBufferSource throws instead.
DecodeDone(c, rendered) ==
    /\ TaskBoundary
    /\ c \in pendingDecodes
    /\ c.m.audio # BadChunk
    /\ pendingDecodes' = pendingDecodes \ {c}
    /\ IF outputAudioCtxRef = 0
       THEN /\ lastOp' = Op("threw", c.k)
            /\ UNCHANGED <<engVars, applied, microtasks, textVars, nextStartTimeRef,
                           sourcesRef, sources, nInterrupts>>
       ELSE LET s0 == schedule(HandlerState, c, outputAudioCtxRef, currentTime, lastOp)
                s == handlerRest(s0, c.m, c.sid, now)
            IN /\ Commit(s, rendered)
               /\ lastOp' = Op(IF OpTag(s, c.m) = "onmessage" THEN "decoded"
                               ELSE OpTag(s, c.m), c.k)
    /\ UNCHANGED <<uiVars, refVars, hudVars, sessVars, resVars, nChunks, awaiting,
                   now, currentTime>>

\* decodeAudioData rejects: the exception leaves the handler.
DecodeFailed(c) ==
    /\ TaskBoundary
    /\ c \in pendingDecodes
    /\ c.m.audio = BadChunk
    /\ pendingDecodes' = pendingDecodes \ {c}
    /\ lastOp' = Op("decodeFailed", c.k)
    /\ UNCHANGED <<uiVars, engVars, refVars, hudVars, sessVars, resVars,
                   nextStartTimeRef, sourcesRef, sources, nChunks, nInterrupts,
                   toolVars, textVars, now, currentTime>>

\* The reaction queued by sessionPromise.then(s => s.sendToolResponse(...)).
\* On a session that is no longer open the send fails and is caught.
SendToolResponse ==
    /\ microtasks # <<>>
    /\ microtasks' = Tail(microtasks)
    /\ LET h == Head(microtasks)
       IN /\ IF phase[h.sid] = "open"
             THEN /\ awaiting' = [awaiting EXCEPT ![h.id] = NoCall]
                  /\ applied' = applied \ {h.id}
             ELSE UNCHANGED <<awaiting, applied>>
          /\ lastOp' = Op("sendToolResponse", h.id)
    /\ UNCHANGED <<uiVars, engVars, refVars, hudVars, sessVars, resVars, playVars,
                   textVars, now, currentTime>>

\* source.onended: natural completion of a playback handle.
SourceEnded(k) ==
    /\ TaskBoundary
    /\ k \in DOMAIN sources
    /\ sources[k].state = "scheduled"
    /\ sources[k].ctx = outputAudioCtxRef
    /\ currentTime >= Max(sources[k].start, sources[k].at) + sources[k].dur
    /\ sources' = [sources EXCEPT ![k].state = "ended"]
    /\ sourcesRef' = sourcesRef \ {k}
    /\ lastOp' = Op("onended", k)
    /\ UNCHANGED <<uiVars, engVars, refVars, hudVars, sessVars, resVars,
                   nextStartTimeRef, pendingDecodes, nChunks, nInterrupts,
                   toolVars, textVars, now, currentTime>>

\* The setTimeout callback armed by turnComplete.
ClearTranscript ==
    /\ TaskBoundary
    /\ clearTimers # <<>>
    /\ clearTimers' = Tail(clearTimers)
    /\ transcriptionRef' = EmptyTranscript
    /\ lastOp' = Op("clearTranscript", Head(clearTimers).armedAt)
    /\ UNCHANGED <<uiVars, engVars, refVars, hudVars, sessVars, resVars, playVars,
                   toolVars, nTexts, now, currentTime>>

\* Time passes: Date.now() and the output context's clock.
Tick ==
    /\ TaskBoundary
    /\ now < MaxNow
    /\ now' = now + 1
    /\ lastOp' = Op("tick", 0)
    /\ UNCHANGED <<uiVars, engVars, refVars, hudVars, sessVars, resVars, playVars,
                   toolVars, textVars, currentTime>>

TickAudio ==
    /\ TaskBoundary
    /\ outputAudioCtxRef # 0
    /\ currentTime < MaxTime
    /\ currentTime' = currentTime + 1
    /\ lastOp' = Op("tickAudio", 0)
    /\ UNCHANGED <<uiVars, engVars, refVars, hudVars, sessVars, resVars, playVars,
                   toolVars, textVars, now>>

(***************************************************************************)
(* The HUD: undo / redo buttons, tool selection, local drawing             *)
(***************************************************************************)
\* The refs take the engine value e; setDrawings is called when called is TRUE.
SetEngine(e, called) ==
    /\ drawingsRef' = e.drawingsRef
    /\ historyRef' = e.historyRef
    /\ historyIndexRef' = e.historyIndexRef
    /\ drawings' = IF called THEN e.drawingsRef ELSE drawings

\* The undo button.  It is enabled by the cursor of the last render
\* (canUndo), which may lag behind the refs, so the handler can find any
\* cursor; lastOp keeps the cursor it found.
Undo ==
    /\ TaskBoundary
    /\ isActive
    /\ SetEngine(undo(Engine), historyIndexRef >= 0)
    /\ lastOp' = Op("undo", historyIndexRef)
    /\ UNCHANGED <<uiVars, refVars, hudVars, sessVars, resVars, playVars, toolVars,
                   textVars, now, currentTime>>

\* The redo button, enabled by the last render as well (canRedo); lastOp
\* keeps the cursor the handler found.
Redo ==
    /\ TaskBoundary
    /\ isActive
    /\ SetEngine(redo(Engine), historyIndexRef < Len(historyRef) - 1)
    /\ lastOp' = Op("redo", historyIndexRef)
    /\ UNCHANGED <<uiVars, refVars, hudVars, sessVars, resVars, playVars, toolVars,
                   textVars, now, currentTime>>

\* React re-renders the HUD with the current drawing list.
Render ==
    /\ TaskBoundary
    /\ drawings # drawingsRef
    /\ drawings' = drawingsRef
    /\ lastOp' = Op("render", 0)
    /\ UNCHANGED <<uiVars, drawingsRef, historyRef, historyIndexRef, refVars, hudVars,
                   sessVars, resVars, playVars, toolVars, textVars, now, currentTime>>

SelectTool(tool) ==
    /\ TaskBoundary
    /\ isActive
    /\ selectedTool # tool
    /\ selectedTool' = tool
    /\ lastOp' = Op("selectTool", 0)
    /\ UNCHANGED <<isActive, isConnecting, error, screenStream, engVars, refVars,
                   hudVars, sessVars, resVars, playVars, toolVars, textVars, now,
                   currentTime>>

\* The window the pointer events are measured in.
Viewport == [innerWidth |-> 2000, innerHeight |-> 1000]

\* (e.clientX / window.innerWidth) * 1000: exact here, the pointer positions
\* used being multiples of the viewport's thousandths.
getNormalizedPos(e) ==
    [x |-> (e.clientX * 1000) \div Viewport.innerWidth,
     y |-> (e.clientY * 1000) \div Viewport.innerHeight]

\* Math.sqrt on the squares met here (distances of the 0-1000 space).
Sqrt(n) == CHOOSE r \in 0..1500 : r * r <= n /\ (r + 1) * (r + 1) > n

PreviewColor == "rgba(34, 211, 238, 0.6)"

\* Faulty variant of Preview: the rectangle is anchored at the start point
\* of the drag instead of being centred between its two corners.
PreviewFromCorner(tool, sp, pos, pts) ==
    LET width == pos.x - sp.x
        height == pos.y - sp.y
        base == [NoDrawing EXCEPT !.id = <<"preview", 0, 0>>, !.type = tool,
                                  !.x = sp.x, !.y = sp.y, !.color = PreviewColor]
    IN CASE tool = "path" -> [base EXCEPT !.points = Append(pts, pos)]
         [] tool = "rect" -> [base EXCEPT !.width = IF width < 0 THEN -width ELSE width,
                                          !.height = IF height < 0 THEN -height ELSE height]
         [] tool = "circle" -> [base EXCEPT !.width = Sqrt(width * width + height * height)]
         [] tool = "arrow" -> [base EXCEPT !.points = <<sp, pos>>]
         [] tool = "text" -> [base EXCEPT !.x = pos.x, !.y = pos.y, !.label = "USER MARK",
                                          !.color = "rgba(34, 211, 238, 0.9)"]
         [] OTHER -> NoDrawing

\* The preview computed by handleMouseMove; width / 2 and height / 2 are
\* exact for the even deltas used here.
Preview(tool, sp, pos, pts) ==
    LET width == pos.x - sp.x
        height == pos.y - sp.y
        base == [NoDrawing EXCEPT !.id = <<"preview", 0, 0>>, !.type = tool,
                                  !.x = sp.x, !.y = sp.y, !.color = PreviewColor]
    IN CASE tool = "path" -> [base EXCEPT !.points = Append(pts, pos)]
         [] tool = "rect" -> [base EXCEPT !.x = sp.x + width \div 2,
                                          !.y = sp.y + height \div 2,
                                          !.width = IF width < 0 THEN -width ELSE width,
                                          !.height = IF height < 0 THEN -height ELSE height]
         [] tool = "circle" -> [base EXCEPT !.width = Sqrt(width * width + height * height)]
         [] tool = "arrow" -> [base EXCEPT !.points = <<sp, pos>>]
         [] tool = "text" -> [base EXCEPT !.x = pos.x, !.y = pos.y, !.label = "USER MARK",
                                          !.color = "rgba(34, 211, 238, 0.9)"]
         [] OTHER -> NoDrawing


handleMouseDown(e) ==
    /\ TaskBoundary
    /\ isActive
    /\ isDrawing' = TRUE
    /\ startPoint' = getNormalizedPos(e)
    /\ currentPoints' = <<getNormalizedPos(e)>>
    /\ lastOp' = Op("mouseDown", 0)
    /\ UNCHANGED <<uiVars, engVars, refVars, previewDrawing, sessVars, resVars,
                   playVars, toolVars, textVars, now, currentTime>>

handleMouseMove(e) ==
    /\ TaskBoundary
    /\ isDrawing /\ startPoint # NoPoint
    /\ Len(currentPoints) < MaxPoints
    /\ currentPoints' = Append(currentPoints, getNormalizedPos(e))
    /\ previewDrawing' = Preview(selectedTool, startPoint, getNormalizedPos(e), currentPoints)
    /\ lastOp' = Op("mouseMove", 0)
    /\ UNCHANGED <<uiVars, engVars, refVars, isDrawing, startPoint, sessVars, resVars,
                   playVars, toolVars, textVars, now, currentTime>>

\* handleMouseUp: commits [...drawings, finalDrawing] through setDrawings
\* (= updateDrawings), `drawings` being the list of the HUD's last render.
handleMouseUp ==
    /\ TaskBoundary
    /\ IF ~isDrawing \/ previewDrawing = NoDrawing
       THEN /\ isDrawing' = FALSE
            /\ startPoint' = NoPoint
            /\ UNCHANGED <<engVars, currentPoints, previewDrawing>>
       ELSE /\ Len(drawings) < MaxDrawings
            /\ SetEngine(updateDrawings(Engine,
                   Append(drawings, [previewDrawing EXCEPT !.id = <<"user", now, 0>>,
                                                           !.color = "#22d3ee"])), TRUE)
            /\ isDrawing' = FALSE
            /\ startPoint' = NoPoint
            /\ previewDrawing' = NoDrawing
            /\ currentPoints' = <<>>
    /\ lastOp' = Op("mouseUp", 0)
    /\ UNCHANGED <<uiVars, refVars, sessVars, resVars, playVars, toolVars, textVars,
                   now, currentTime>>

(***************************************************************************)
(* Inputs of the environment                                               *)
(***************************************************************************)
CircleMark == Mark("circle", 500, 500, 50, NoId)
OwnIdMark == Mark("rect", 200, 200, 100, <<"raw", 1, 0>>)

MarkCall == Call("mark_screen", TRUE, <<CircleMark>>)
OwnIdCall == Call("mark_screen", TRUE, <<OwnIdMark>>)
NoMarksCall == Call("mark_screen", FALSE, <<>>)
ClearCall == Call("clear_marks", FALSE, <<>>)

\* The marker types of markScreenTool's schema, a descriptor without a type,
\* and a call that carries it next to a well-formed mark.
MarkTypes == {"circle", "rect", "arrow", "text", "path"}
UntypedMark == Mark("", 500, 500, 50, NoId)
MixedCall == Call("mark_screen", TRUE, <<UntypedMark, CircleMark>>)

ToolMsg(calls) == Msg(0, calls, FALSE, FALSE, FALSE, FALSE)
AudioMsg(d) == Msg(d, <<>>, FALSE, FALSE, FALSE, FALSE)
InterruptMsg == Msg(0, <<>>, FALSE, FALSE, FALSE, TRUE)
TextMsg(inTx, outTx, done) == Msg(0, <<>>, inTx, outTx, done, FALSE)

\* The drawing list stays within n entries.
Fits(m, n) == Len(drawingsRef) + MarksIn(m.calls) <= n

\* Pointer events at the four corners of a rectangle: (200,200), (400,200),
\* (200,300) and (400,300) in the normalized space.
Corners == {[clientX |-> x, clientY |-> y] : x \in {400, 800}, y \in {200, 300}}

\* Pointer events, in pixels of the viewport.
Clicks == {[clientX |-> 400, clientY |-> 200], [clientX |-> 1000, clientY |-> 600]}

(***************************************************************************)
(* Specifications.  Each one lets a session start and open, and then       *)
(* exercises one part of the program with the inputs that part reads.      *)
(***************************************************************************)
Startup ==
    \/ StartJarvis
    \/ \E sid \in Sids : ScreenGranted(sid)
    \/ \E sid \in Sids : MicGranted(sid)
    \/ \E sid \in Sids : OnOpen(sid)

\* The history at its cap: one mark per call of the open session, the list
\* growing past the cap.
NextCap ==
    \/ Startup
    \/ Deactivate
    \/ \E sid \in Sids : /\ phase[sid] = "open"
                         /\ Fits(ToolMsg(<<MarkCall>>), HistoryCap + CapExtra)
                         /\ OnMessage(sid, ToolMsg(<<MarkCall>>), TRUE)
    \/ SendToolResponse
    \/ Undo
    \/ Redo

SpecCap == Init /\ [][NextCap]_vars

\* clear_marks on short histories and at the cap, undone at once: a clear
\* when no earlier clear is in the history up to the cursor, an undo right
\* after a clear.
ClearPoints == {1, 2, HistoryCap - 1, HistoryCap}

NextClear ==
    \/ Startup
    \/ \E sid \in Sids : /\ phase[sid] = "open"
                         /\ Fits(ToolMsg(<<MarkCall>>), HistoryCap + CapExtra)
                         /\ OnMessage(sid, ToolMsg(<<MarkCall>>), TRUE)
    \/ \E sid \in Sids : /\ phase[sid] = "open"
                         /\ drawingsRef # <<>>
                         /\ Len(historyRef) \in ClearPoints
                         /\ \A i \in 1..(historyIndexRef + 1) : historyRef[i] # <<>>
                         /\ OnMessage(sid, ToolMsg(<<ClearCall>>), TRUE)
    \/ SendToolResponse
    \/ drawingsRef = <<>> /\ historyIndexRef = Len(historyRef) - 1 /\ Undo

SpecClear == Init /\ [][NextClear]_vars

\* The annotation engine on short histories: marks, clears, undo, redo,
\* teardown.
HistoryMsgs == {ToolMsg(<<MarkCall>>), ToolMsg(<<ClearCall>>)}

NextHistory ==
    \/ Startup
    \/ Deactivate
    \/ \E sid \in Sids : \E m \in HistoryMsgs :
          /\ Fits(m, MaxDrawings)
          /\ Len(historyRef) < MaxHistory
          /\ OnMessage(sid, m, TRUE)
    \/ SendToolResponse
    \/ Undo
    \/ Redo
    \/ Tick

SpecHistory == Init /\ [][NextHistory]_vars

\* Teardown from every origin: the shutdown button, the remote's close and
\* error, the end of the screen capture, a failed start; with playback
\* sources to stop.
NextTeardown ==
    \/ Startup
    \/ \E sid \in Sids : StartFailed(sid)
    \/ Deactivate
    \/ \E sid \in Sids : OnError(sid)
    \/ \E sid \in Sids : OnClose(sid)
    \/ \E sid \in Sids : TrackEnded(sid)
    \/ \E sid \in Sids : OnMessage(sid, AudioMsg(1), TRUE)
    \/ \E c \in pendingDecodes : DecodeDone(c, TRUE)

SpecTeardown == Init /\ [][NextTeardown]_vars

\* Starts that fail: a device is refused, the connect request rejects, or
\* the connection reports an error before it opened.
NextConnect ==
    \/ Startup
    \/ \E sid \in Sids : StartFailed(sid)
    \/ \E sid \in Sids : ConnectRejected(sid)
    \/ \E sid \in Sids : OnError(sid)
    \/ \E sid \in Sids : OnClose(sid)
    \/ \E sid \in Sids : TrackEnded(sid)
    \/ Deactivate

SpecConnect == Init /\ [][NextConnect]_vars

\* The ends of a session that come from outside: the remote's error and
\* close callbacks and the end of the screen capture, next to the shutdown
\* button, with one chunk of audio of the first session to play.
NextRemoteEnd ==
    \/ Startup
    \/ Deactivate
    \/ \E sid \in Sids : OnError(sid)
    \/ \E sid \in Sids : OnClose(sid)
    \/ \E sid \in Sids : TrackEnded(sid)
    \/ \E sid \in Sids : /\ nChunks = 0 /\ nStarts = 1 /\ phase[sid] = "open"
                         /\ OnMessage(sid, AudioMsg(1), TRUE)
    \/ \E c \in pendingDecodes : DecodeDone(c, TRUE)

SpecRemoteEnd == Init /\ [][NextRemoteEnd]_vars

\* The visualizer: the sampling loop started by onopen, across teardowns
\* and restarts.
NextVisual ==
    \/ Startup
    \/ Deactivate
    \/ \E sid \in Sids : OnClose(sid)
    \/ \E sid \in Sids : TrackEnded(sid)
    \/ \E sid \in Sids : AnimationFrame(sid)

SpecVisual == Init /\ [][NextVisual]_vars

\* Teardown with a failing step, with playback sources to stop.
NextFault ==
    \/ Startup
    \/ Deactivate
    \/ \E fault \in Faults : CleanupFails(fault)
    \/ \E sid \in Sids : OnClose(sid)
    \/ \E sid \in Sids : OnMessage(sid, AudioMsg(1), TRUE)
    \/ \E c \in pendingDecodes : DecodeDone(c, TRUE)

SpecFault == Init /\ [][NextFault]_vars

\* The playback scheduler: chunks of each duration, interruptions, decode
\* completions in any order, the audio clock advancing, sources ending.
PlaybackMsgs == {AudioMsg(d) : d \in 1..MaxDur} \cup {InterruptMsg}

NextPlayback ==
    \/ Startup
    \/ \E sid \in Sids : \E m \in PlaybackMsgs : OnMessage(sid, m, TRUE)
    \/ \E c \in pendingDecodes : DecodeDone(c, TRUE)
    \/ \E k \in DOMAIN sources : SourceEnded(k)
    \/ TickAudio

SpecPlayback == Init /\ [][NextPlayback]_vars

\* Chunks that decode and chunks that do not, in any order, the audio clock
\* advancing, sources ending.
DecodeMsgs == {AudioMsg(d) : d \in 1..MaxDur} \cup {AudioMsg(BadChunk)}

NextDecode ==
    \/ Startup
    \/ \E sid \in Sids : \E m \in DecodeMsgs : OnMessage(sid, m, TRUE)
    \/ \E c \in pendingDecodes : DecodeDone(c, TRUE)
    \/ \E c \in pendingDecodes : DecodeFailed(c)
    \/ \E k \in DOMAIN sources : SourceEnded(k)
    \/ TickAudio

SpecDecode == Init /\ [][NextDecode]_vars

\* Tool calls: messages with one or two calls, marks that carry their own
\* id, a mark_screen call without marks, the HUD rendered before the next
\* event or not.
ToolMsgs ==
    {ToolMsg(<<MarkCall>>), ToolMsg(<<ClearCall>>), ToolMsg(<<MarkCall, MarkCall>>),
     ToolMsg(<<OwnIdCall>>), ToolMsg(<<NoMarksCall, ClearCall>>)}

NextTools ==
    \/ Startup
    \/ \E sid \in Sids : \E m \in ToolMsgs : \E rendered \in BOOLEAN :
          /\ Fits(m, MaxDrawings)
          /\ Len(historyRef) < MaxHistory
          /\ OnMessage(sid, m, rendered)
    \/ SendToolResponse
    \/ Render
    \/ Tick

SpecTools == Init /\ [][NextTools]_vars

\* Malformed tool arguments: a batch with an invalid descriptor, a
\* mark_screen call without marks followed by another call.
MalformedMsgs ==
    {ToolMsg(<<MixedCall>>), ToolMsg(<<NoMarksCall, ClearCall>>), ToolMsg(<<MarkCall>>)}

NextMalformed ==
    \/ Startup
    \/ \E sid \in Sids : OnClose(sid)
    \/ \E sid \in Sids : \E m \in MalformedMsgs :
          /\ Fits(m, MaxDrawings)
          /\ Len(historyRef) < MaxHistory
          /\ OnMessage(sid, m, TRUE)
    \/ SendToolResponse
    \/ Undo
    \/ Deactivate
    \/ Tick

SpecMalformed == Init /\ [][NextMalformed]_vars

\* Local drawing next to remote marks: pointer gestures with each tool (a
\* tool being selected between gestures), mark_screen calls, the HUD rendered
\* before the next event or not.
Tools == {"path", "rect", "circle", "arrow", "text"}

DrawMsgs == {ToolMsg(<<MarkCall>>), ToolMsg(<<MarkCall, MarkCall>>), ToolMsg(<<OwnIdCall>>)}

NextDraw ==
    \/ Startup
    \/ \E sid \in Sids : \E m \in DrawMsgs : \E rendered \in BOOLEAN :
          /\ Fits(m, MaxDrawings)
          /\ Len(historyRef) < MaxDrawings
          /\ OnMessage(sid, m, rendered)
    \/ SendToolResponse
    \/ Render
    \/ \E tool \in Tools : ~isDrawing /\ SelectTool(tool)
    \/ \E e \in Clicks : handleMouseDown(e)
    \/ \E e \in Clicks : handleMouseMove(e)
    \/ Len(historyRef) < MaxDrawings /\ handleMouseUp
    \/ Tick

SpecDraw == Init /\ [][NextDraw]_vars

\* Pointer gestures between the corners of a rectangle, in every direction,
\* with each tool, on an empty drawing list (a committed drawing is undone
\* before the next one).
NextRect ==
    \/ Startup
    \/ \E tool \in Tools : ~isDrawing /\ SelectTool(tool)
    \/ \E e \in Corners : handleMouseDown(e)
    \/ \E e \in Corners : handleMouseMove(e)
    \/ drawingsRef = <<>> /\ handleMouseUp
    \/ Undo

SpecRect == Init /\ [][NextRect]_vars

\* Every writer of the annotation engine together: marks and clears of the
\* remote, local commits (of a list the HUD has rendered or not), undo, redo
\* and teardown.
NextEngine ==
    \/ Startup
    \/ Deactivate
    \/ \E sid \in Sids : \E m \in HistoryMsgs :
          /\ phase[sid] = "open"
          /\ Fits(m, MaxDrawings)
          /\ Len(historyRef) <= MaxDrawings
          /\ OnMessage(sid, m, FALSE)
    \/ SendToolResponse
    \/ Render
    \/ \E e \in Clicks : ~isDrawing /\ handleMouseDown(e)
    \/ \E e \in Clicks : /\ Len(currentPoints) = 1
                         /\ getNormalizedPos(e) # startPoint
                         /\ handleMouseMove(e)
    \/ Len(historyRef) <= MaxDrawings /\ handleMouseUp
    \/ Undo
    \/ Redo

SpecEngine == Init /\ [][NextEngine]_vars

\* The transcript: text of either side, turn-complete signals, the clear
\* timers firing.
TranscriptMsgs ==
    {TextMsg(TRUE, FALSE, FALSE), TextMsg(FALSE, TRUE, FALSE),
     TextMsg(FALSE, FALSE, TRUE), TextMsg(FALSE, TRUE, TRUE)}

NextTranscript ==
    \/ Startup
    \/ \E sid \in Sids : \E m \in TranscriptMsgs : OnMessage(sid, m, TRUE)
    \/ ClearTranscript

SpecTranscript == Init /\ [][NextTranscript]_vars

(***************************************************************************)
(* Properties of the history stack                                         *)
(***************************************************************************)
\* C1: after any sequence of updateDrawings calls, clears, undos, redos and
\* teardowns the cursor lies in -1 .. length-1 and the history holds at
\* most 50 snapshots.
C1_CursorAndLength ==
    /\ -1 <= historyIndexRef
    /\ historyIndexRef <= Len(historyRef) - 1
    /\ Len(historyRef) <= HistoryCap

\* The history is full and its oldest snapshot has been evicted: the first
\* snapshot kept is not the first one pushed.
C1_Evicted ==
    /\ Len(historyRef) = HistoryCap
    /\ historyIndexRef = HistoryCap - 1
    /\ Len(historyRef[1]) > 1
    /\ lastOp.op = "toolCall"

\* C3: a push made while the cursor is not at the end of the history keeps
\* the snapshots up to the cursor, discards the ones beyond it and appends
\* the new list; the cursor then points at the new last snapshot and redo
\* changes nothing.  ([A,B,C] at cursor 2, undo, push D: [A,B,D], cursor 2.)
C3_RedoBranchTruncated ==
    [][lastOp'.op = "toolCall" =>
          /\ historyRef' = Append(SubSeq(historyRef, 1, historyIndexRef + 1), drawingsRef')
          /\ historyIndexRef' = Len(historyRef') - 1
          /\ redo(Engine') = Engine']_vars

\* [A,B,C] with the cursor moved back to B, then a push: three snapshots,
\* cursor 2, and the handler found a redo available.
C3_PushedAfterUndo ==
    /\ lastOp = Op("toolCall", 1)
    /\ Len(historyRef) = 3
    /\ historyIndexRef = 2
    /\ drawingsRef = historyRef[3]

\* C4: undo at cursor 0 moves the cursor to -1 and empties the drawing
\* list; redo at cursor -1 of a non-empty history restores snapshot 0; undo
\* at cursor -1 and redo at the last snapshot change nothing; neither ever
\* changes the history.
C4_UndoRedoBoundaries ==
    [][/\ lastOp'.op = "undo" =>
            /\ historyRef' = historyRef
            /\ historyIndexRef = 0 =>
                  historyIndexRef' = -1 /\ drawingsRef' = <<>> /\ drawings' = <<>>
            /\ historyIndexRef = -1 => UNCHANGED engVars
       /\ lastOp'.op = "redo" =>
            /\ historyRef' = historyRef
            /\ (historyIndexRef = -1 /\ historyRef # <<>>) =>
                  /\ historyIndexRef' = 0
                  /\ drawingsRef' = historyRef[1]
                  /\ drawings' = historyRef[1]
            /\ historyIndexRef = Len(historyRef) - 1 => UNCHANGED engVars]_vars

\* Undo was pressed at cursor 0 on a history whose snapshot 0 is not empty.
C4_UndoAtZero ==
    /\ lastOp = Op("undo", 0)
    /\ historyIndexRef = -1
    /\ drawingsRef = <<>>
    /\ historyRef # <<>>
    /\ historyRef[1] # <<>>

(***************************************************************************)
(* Properties of teardown                                                  *)
(***************************************************************************)
\* C2: however often and from wherever cleanup is invoked for a session,
\* each release step runs once in total for it: the video timer is cleared
\* once, the microphone tracks are stopped once, each audio context and the
\* remote session are closed once, and no playback source is stopped twice.
C2_ReleasedOnce ==
    /\ \A sid \in Sids :
          /\ released[sid].clearInterval <= 1
          /\ released[sid].micStop <= 1
          /\ released[sid].inClose <= 1
          /\ released[sid].outClose <= 1
          /\ released[sid].sessClose <= 1
    /\ \A k \in DOMAIN sources : sources[k].stops <= 1

(***************************************************************************)
(* Properties of the playback scheduler                                    *)
(***************************************************************************)
\* Two sources of one output context, the first made from the chunk that
\* arrived first, with no interruption from that arrival to the scheduling
\* of both.
InOrderPair(i, j) ==
    /\ sources[i].arr < sources[j].arr
    /\ sources[i].ctx = sources[j].ctx
    /\ sources[i].epoch = sources[i].arrEpoch
    /\ sources[j].epoch = sources[i].arrEpoch

\* C5: chunks play one after the other in arrival order: with no
\* interruption in between, a chunk starts no earlier than the start of
\* every chunk that arrived before it plus that chunk's duration, whatever
\* the order in which the decodes complete.
C5_ArrivalOrder ==
    \A i, j \in DOMAIN sources :
        InOrderPair(i, j) => sources[j].start >= sources[i].start + sources[i].dur

\* C6: a source is started at a time that is not before the output
\* context's clock at the moment it is started.
C6_StartNotBeforeClock ==
    \A k \in DOMAIN sources : sources[k].start >= sources[k].at

\* The source k is the first one started since the interruption that
\* preceded the arrival of its chunk, and no other interruption came before
\* it was started.
FirstSince(k) ==
    /\ sources[k].epoch = sources[k].arrEpoch
    /\ \A j \in 1..(k - 1) : sources[j].epoch < sources[k].arrEpoch

Acks(i) == {j \in 1..Len(microtasks) : microtasks[j].id = i}

\* C8: once the handler of a message has returned, every mark_screen and
\* clear_marks call the message carried has exactly one acknowledgment with
\* its id on the way to the open session, queued after updateDrawings ran
\* for that call.
C8_OneAckAfterUpdate ==
    \A i \in CallIds :
        (awaiting[i] # NoCall /\ phase[awaiting[i].sid] = "open") =>
            /\ Cardinality(Acks(i)) = 1
            /\ i \in applied

\* C9: no two drawings of the drawing list have the same id.
C9_UniqueIds ==
    \A i, j \in 1..Len(drawingsRef) :
        i # j => drawingsRef[i].id # drawingsRef[j].id

(***************************************************************************)
(* Properties of the transcript                                            *)
(***************************************************************************)
\* C10: the clear armed by a turn-complete wipes no text that arrived after
\* that turn-complete: when its timer fires, the buffers hold only deltas
\* that had arrived when it was armed.
C10_ClearSparesNewText ==
    [][lastOp'.op = "clearTranscript" =>
          /\ \A i \in 1..Len(transcriptionRef.user) :
                transcriptionRef.user[i] <= lastOp'.arg
          /\ \A i \in 1..Len(transcriptionRef.ai) :
                transcriptionRef.ai[i] <= lastOp'.arg]_vars

\* C11: when the screen or the microphone cannot be acquired the start is
\* aborted and the session stays Idle throughout: it was not connecting or
\* active while the devices were being acquired, it is neither afterwards,
\* an error message is shown, and no remote session was requested.
C11_FailedAcquisitionStaysIdle ==
    [][\A sid \in Sids :
          (phase[sid] \in {"awaitScreen", "awaitMic"} /\ phase'[sid] = "failed") =>
             /\ ~isConnecting /\ ~isActive
             /\ ~isConnecting' /\ ~isActive'
             /\ error' # ""
             /\ sessionPromiseRef' # sid]_vars

\* C12: when the remote session fails to open after the devices were
\* acquired (the connect request rejects, or the connection reports an error
\* before any open callback) the start is aborted: the controller is neither
\* connecting nor active and an error message is shown.
C12_FailedConnectEndsIdle ==
    \A sid \in Sids :
        \/ lastOp = Op("connectRejected", sid)
        \/ (lastOp = Op("onerror", sid) /\ phase[sid] = "refused")
        => ~isConnecting /\ ~isActive /\ error # ""

\* C13: every teardown step is fault-tolerant on its own: when one step of a
\* teardown fails, every other step of that teardown still runs (the frame
\* timer is cleared, the microphone tracks and the playback sources are
\* stopped, both audio contexts and the remote session are closed).
C13_OtherStepsStillRun ==
    [][lastOp'.op = "cleanupFault" =>
         LET f == lastOp'.arg IN
         /\ (f # "clearInterval" /\ frameIntervalRef # 0) =>
               released'[frameIntervalRef].clearInterval =
                  released[frameIntervalRef].clearInterval + 1
         /\ (f # "micStop" /\ micStreamRef # 0) =>
               released'[micStreamRef].micStop = released[micStreamRef].micStop + 1
         /\ f # "sourceStop" => \A k \in sourcesRef : sources'[k].state = "stopped"
         /\ (f # "inClose" /\ inputAudioCtxRef # 0) =>
               released'[inputAudioCtxRef].inClose =
                  released[inputAudioCtxRef].inClose + 1
         /\ (f # "outClose" /\ outputAudioCtxRef # 0) =>
               released'[outputAudioCtxRef].outClose =
                  released[outputAudioCtxRef].outClose + 1
         /\ (f # "sessionClose" /\ sessionPromiseRef # 0
               /\ SessionResolved(phase, sessionPromiseRef)) =>
               released'[sessionPromiseRef].sessClose =
                  released[sessionPromiseRef].sessClose + 1]_vars

\* C14: the screen and microphone tracks of a start are released exactly
\* once: after a teardown, and after a start that is aborted once a device
\* was acquired, no track of that start is still running, and none was
\* stopped more than once.
C14_TracksReleasedOnce ==
    \A sid \in Sids :
        /\ released[sid].micStop <= 1
        /\ phase[sid] \in {"failed", "closing", "closed", "errored", "refused"} =>
              /\ tracks[sid].screen # "live"
              /\ tracks[sid].mic # "live"

\* C15: an invalid mark descriptor of a mark_screen call is dropped and the
\* well-formed marks of the batch are appended, so no drawing of the list has
\* a type outside the schema; and every call of a handled message, a
\* mark_screen call without a marks list and the calls after it included,
\* has its acknowledgment on the way to the open session.
C15_InvalidMarksDropped ==
    /\ \A i \in 1..Len(drawingsRef) : drawingsRef[i].type \in MarkTypes
    /\ \A i \in CallIds :
          (awaiting[i] # NoCall /\ phase[awaiting[i].sid] = "open") =>
              Cardinality(Acks(i)) = 1

\* C16: clear_marks on a non-empty drawing list leaves the list empty and
\* pushes exactly one new snapshot (the oldest one evicted at the cap of 50);
\* a single undo right after it restores exactly the list as it was before
\* the clear.
C16_ClearThenUndo ==
    [][(lastOp'.op = "toolCall" /\ drawingsRef # <<>> /\ drawingsRef' = <<>>) =>
         /\ Len(historyRef') = IF historyIndexRef + 2 > HistoryCap THEN HistoryCap
                               ELSE historyIndexRef + 2
         /\ historyIndexRef' = Len(historyRef') - 1
         /\ historyRef'[Len(historyRef')] = <<>>
         /\ historyRef'[Len(historyRef') - 1] = drawingsRef
         /\ undo(Engine').drawingsRef = drawingsRef
         /\ undo(Engine').historyRef = historyRef'
         /\ undo(Engine').historyIndexRef = historyIndexRef' - 1]_vars

\* A clear at the cap (the oldest snapshots evicted, the empty list pushed
\* as the 50th) has just been undone, and the marks are back.
C16_ClearUndoneAtCap ==
    /\ lastOp.op = "undo"
    /\ Len(historyRef) = HistoryCap
    /\ historyRef[HistoryCap] = <<>>
    /\ Len(historyRef[1]) > 1
    /\ historyIndexRef = HistoryCap - 2
    /\ drawingsRef = historyRef[HistoryCap - 1]
    /\ drawingsRef # <<>>

\* A session handle is live from the connect request until the connection
\* has closed or failed.
Live(sid) == phase[sid] \in {"connecting", "open", "closing"}

\* C17: at any moment at most one remote session handle is live (requested
\* or open, and not yet closed).
C17_OneLiveSession == Cardinality({sid \in Sids : Live(sid)}) <= 1

C19_ProducersOnlyWhileActive == ~isActive => timers = {} /\ audioProcs = {}

(***************************************************************************)
(* Properties of local drawing                                             *)
(***************************************************************************)
Abs(n) == IF n < 0 THEN -n ELSE n

\* C20: a drag with the Rect tool (button down at s, the pointer moved, last
\* to p, button up), in any direction, commits one drawing: a rect whose centre is
\* the midpoint of s and p, whose width is |p.x - s.x| and whose height is
\* |p.y - s.y|, with the geometry of the last preview.
C20_RectGeometry ==
    [][(lastOp'.op = "mouseUp" /\ isDrawing /\ Len(currentPoints) >= 2
          /\ selectedTool = "rect") =>
         LET sp == startPoint
             p == currentPoints[Len(currentPoints)]
             d == drawingsRef'[Len(drawingsRef')]
         IN /\ drawingsRef' = Append(drawings, d)
            /\ d.type = "rect"
            /\ 2 * d.x = sp.x + p.x
            /\ 2 * d.y = sp.y + p.y
            /\ d.width = Abs(p.x - sp.x)
            /\ d.height = Abs(p.y - sp.y)
            /\ d.x = previewDrawing.x /\ d.y = previewDrawing.y
            /\ d.width = previewDrawing.width /\ d.height = previewDrawing.height
            /\ d.points = previewDrawing.points]_vars

\* The drag between (200,200) and (400,300) has been committed: centre
\* (300,250), width 200, height 100.
C20_RectCommitted ==
    /\ lastOp.op = "mouseUp"
    /\ drawingsRef # <<>>
    /\ LET d == drawingsRef[Len(drawingsRef)]
       IN /\ d.type = "rect" /\ d.id[1] = "user"
          /\ d.x = 300 /\ d.y = 250 /\ d.width = 200 /\ d.height = 100

(***************************************************************************)
(* Properties of the visualizer                                            *)
(***************************************************************************)
\* C21: the sampling loop started by the open callback follows the Active
\* state: an animation frame that finds the session Active publishes a fresh
\* sample and schedules the next frame, and one that finds it not Active
\* publishes nothing and ends the loop.
C21_SamplingLoopFollowsActive ==
    [][\A sid \in Sids :
          (sid \in frames /\ lastOp' = Op("updateVisuals", sid)) =>
             IF isActive /\ outputAudioCtxRef # 0
             THEN voiceData' = voiceData + 1 /\ sid \in frames'
             ELSE voiceData' = voiceData /\ sid \notin frames']_vars

(***************************************************************************)
(* Properties of decode failures and of late chunks                        *)
(***************************************************************************)
\* C22: a decode failure of one audio chunk is not fatal.  The failing chunk
\* is never registered as a source and adds nothing to nextStartTimeRef
\* (its arrival only raises the offset to the clock, its failure changes
\* nothing); the session stays as it was, Active included; and the chunk of
\* any other message is still scheduled when its decode completes, at the
\* offset then current, and registered in sourcesRef.
C22_DecodeFailureSkipsChunk ==
    [][/\ lastOp'.op = "decodeFailed" =>
            /\ sources' = sources /\ sourcesRef' = sourcesRef
            /\ nextStartTimeRef' = nextStartTimeRef
            /\ isActive' = isActive /\ isConnecting' = isConnecting
            /\ phase' = phase /\ outputAudioCtxRef' = outputAudioCtxRef
            /\ error' = error
       /\ \A c \in pendingDecodes' \ pendingDecodes :
            c.m.audio = BadChunk =>
               /\ sources' = sources /\ sourcesRef' = sourcesRef
               /\ nextStartTimeRef' = Max(nextStartTimeRef, currentTime)
               /\ isActive' = isActive
       /\ \A k \in DOMAIN sources' : sources'[k].dur # BadChunk
       /\ \A c \in pendingDecodes \ pendingDecodes' :
            (c.m.audio # BadChunk /\ outputAudioCtxRef # 0) =>
               /\ Len(sources') = Len(sources) + 1
               /\ sources'[Len(sources')].arr = c.k
               /\ sources'[Len(sources')].start = nextStartTimeRef
               /\ sources'[Len(sources')].state = "scheduled"
               /\ nextStartTimeRef' = nextStartTimeRef + c.m.audio
               /\ sourcesRef' = sourcesRef \cup {Len(sources')}]_vars

\* The decode of the first chunk has failed and the chunk of the next
\* message has just been scheduled, the session being Active.
C22_ScheduledAfterFailure ==
    /\ lastOp = Op("decoded", 2)
    /\ pendingDecodes = {}
    /\ Len(sources) = 1
    /\ sources[1].arr = 2 /\ sources[1].state = "scheduled"
    /\ 1 \in sourcesRef
    /\ isActive

(***************************************************************************)
(* Properties of the annotation engine as a whole                          *)
(***************************************************************************)
\* C23: in every reachable state the drawing list is the history snapshot at
\* the cursor when the cursor is 0 or more, and is empty when the cursor is
\* -1; the cursor stays within the history.
C23_ListIsSnapshotAtCursor ==
    /\ historyIndexRef \in -1..(Len(historyRef) - 1)
    /\ drawingsRef = IF historyIndexRef >= 0 THEN historyRef[historyIndexRef + 1]
                     ELSE <<>>

\* A redo has brought back a list that holds a remote mark and a local
\* drawing, with a snapshot of an earlier list below the cursor.
C23_RedoneMixedList ==
    /\ lastOp.op = "redo"
    /\ historyIndexRef >= 1
    /\ drawingsRef = historyRef[historyIndexRef + 1]
    /\ \E i, j \in 1..Len(drawingsRef) :
          drawingsRef[i].id[1] = "ai" /\ drawingsRef[j].id[1] = "user"

(***************************************************************************)
(* Properties of callbacks that arrive late                                *)
(***************************************************************************)
\* A callback of invocation sid runs in this step: its open, error or close
\* callback, or its handler of a message with tool calls.
CallbackOf(sid) ==
    \/ lastOp' \in {Op("onopen", sid), Op("onerror", sid), Op("onclose", sid)}
    \/ \E i \in CallIds : awaiting'[i] # awaiting[i] /\ awaiting'[i].sid = sid

\* C24: a callback of a session that was torn down never changes the state
\* or the resources of a session started after it: the activation and
\* connecting flags, the timers and audio callbacks, the refs, the drawing
\* list and history, and the phase and tracks of the later session stay as
\* they are.
C24_StaleCallbacksInert ==
    [][\A sid \in Sids :
          (sid < nStarts /\ CallbackOf(sid)) =>
             /\ isActive' = isActive /\ isConnecting' = isConnecting
             /\ timers' = timers /\ audioProcs' = audioProcs
             /\ refVars' = refVars
             /\ drawingsRef' = drawingsRef /\ historyRef' = historyRef
             /\ \A t \in Sids :
                   t > sid => /\ phase'[t] = phase[t]
                              /\ tracks'[t] = tracks[t]
                              /\ closeReq'[t] = closeReq[t]]_vars

\* C25: committing a local drawing never loses a drawing added remotely:
\* the list after the commit is the engine's list immediately before the
\* commit with the new drawing appended, also when a mark_screen call was
\* applied that the overlay has not yet observed.
C25_CommitKeepsRemoteMarks ==
    [][(lastOp' = Op("mouseUp", 0) /\ isDrawing /\ previewDrawing # NoDrawing) =>
          /\ Len(drawingsRef') = Len(drawingsRef) + 1
          /\ SubSeq(drawingsRef', 1, Len(drawingsRef)) = drawingsRef
          /\ drawingsRef'[Len(drawingsRef')].id[1] = "user"]_vars

\* C26: whenever the session is not Active the drawing list and the history
\* are empty and the cursor is -1: teardown empties them and no later
\* pointer release or late tool-call message adds a drawing or a snapshot.
C26_EngineEmptyWhileInactive ==
    ~isActive => /\ drawingsRef = <<>>
                 /\ historyRef = <<>>
                 /\ historyIndexRef = -1

\* C27: once an interruption has been processed, no chunk that arrived before
\* it is started or registered in the playback set afterwards: every source
\* is scheduled in the interruption epoch in which its chunk arrived, also
\* when its decode was pending while the interruption was handled.
C27_NoStartAcrossInterruption ==
    \A k \in DOMAIN sources : sources[k].epoch = sources[k].arrEpoch

====
